---- MODULE Spec2Model ----
(***************************************************************************)
(* saurluhi: "delete least-recently used files to limit a directory to a   *)
(* specified size" (src/src/main.rs).                                      *)
(*                                                                         *)
(* The program is one run of main(): pass 1 walks the directory and sums   *)
(* the sizes of the counted entries; if the sum is above the goal, pass 2  *)
(* walks the directory again with walkdir's sort_by_key(mtime) and, entry  *)
(* by entry, subtracts the entry's size, deletes it and prunes the         *)
(* ancestors it emptied, until the running size is at or below the goal.   *)
(*                                                                         *)
(* The file system is a function from the paths that exist to their        *)
(* lstat() attributes.  A path is the sequence of its components; the      *)
(* directory given on the command line is Directory.                       *)
(***************************************************************************)
EXTENDS Integers, Sequences, FiniteSets, TLC

\* Bounds of the model: the largest st_size (1..MaxSize), the largest
\* initial st_mtime (1..MaxMtime) and the largest goal, --size (0..MaxGoal).
MaxSize == 2
MaxMtime == 2
MaxGoal == 1

\* The most changes other processes make to the tree during one run.
MaxExternal == 1

\* WalkDir::min_depth(1): the directory itself is not yielded.
MinDepth == 1

(***************************************************************************)
(* Paths                                                                   *)
(***************************************************************************)
Directory == <<"d">>
DirA == <<"d", "a">>
DirB == <<"d", "b">>
DirC == <<"d", "a", "c">>
LeafR == <<"d", "r">>
LeafX == <<"d", "a", "x">>
LeafW == <<"d", "a", "w">>
LeafY == <<"d", "a", "c", "y">>
LeafZ == <<"d", "b", "z">>

\* The order in which read_dir() lists names.  The order is the file system's;
\* it is fixed here, and a directory's listing is the part of it that exists.
ListingOrder == <<LeafX, DirC, LeafW, DirA, DirB, LeafR, LeafY, LeafZ>>

\* Path::parent
Parent(p) == SubSeq(p, 1, Len(p) - 1)

\* Path::starts_with: base is a component-wise prefix of p.
StartsWith(p, base) ==
    /\ Len(p) >= Len(base)
    /\ SubSeq(p, 1, Len(base)) = base

(***************************************************************************)
(* File system                                                             *)
(***************************************************************************)
LeafKinds == {"file", "symlink", "other"}
Sizes == 1..MaxSize
Times == 1..MaxMtime

\* The time of a modification made during the run: not before any initial mtime.
Now == MaxMtime + 1

Absent == [kind |-> "absent", size |-> 0, mtime |-> 0]
DirAttrs == [kind : {"dir"}, size : {0}, mtime : Times]
\* st_size of an entry that is neither a regular file nor a symbolic link is
\* whatever the file system reports (POSIX leaves it unspecified).
LeafAttrs == [kind : LeafKinds, size : Sizes, mtime : Times]

DirOpts == {Absent} \cup DirAttrs
LeafOpts == {Absent} \cup LeafAttrs
\* Regular files only.
FileOpts == {a \in LeafOpts : a.kind \in {"absent", "file"}}

\* The tree in which the paths of DOMAIN attr have the given attributes (or are
\* Absent); an entry exists only in a directory that exists.
MkFs(attr) ==
    LET there == {p \in DOMAIN attr :
                     /\ attr[p] # Absent
                     /\ \A q \in DOMAIN attr : StartsWith(p, q) => attr[q] # Absent}
    IN  [p \in there \cup {Directory} |->
            IF p = Directory THEN [kind |-> "dir", size |-> 0, mtime |-> 1]
            ELSE attr[p]]

\* The shapes of the trees of Init: a nested directory (a/x, a/c/y), two sibling
\* directories of regular files (a/x, b/z), two files of one directory (a/x,
\* a/w), and a file beside a directory (r, a/x).  Every directory and file of a
\* shape is optional.  ContentTrees adds a shape of three files.
NestedTrees ==
    {MkFs((DirA :> a) @@ (DirC :> c) @@ (LeafX :> x) @@ (LeafY :> y)) :
        a \in DirOpts, c \in DirOpts, x \in LeafOpts, y \in LeafOpts}
SiblingTrees ==
    {MkFs((DirA :> a) @@ (DirB :> b) @@ (LeafX :> x) @@ (LeafZ :> z)) :
        a \in DirOpts, b \in DirOpts, x \in FileOpts, z \in FileOpts}
FlatTrees ==
    {MkFs((DirA :> a) @@ (LeafX :> x) @@ (LeafW :> w)) :
        a \in DirOpts, x \in LeafOpts, w \in LeafOpts}
TopTrees ==
    {MkFs((DirA :> a) @@ (LeafX :> x) @@ (LeafR :> r)) :
        a \in DirOpts, x \in LeafOpts, r \in LeafOpts}
\* A directory of two files beside a file (a/x, a/w, r): regular files of one
\* byte, of every modification time.
SmallFiles == [kind : {"file"}, size : {1}, mtime : Times]
ContentTrees ==
    {MkFs((DirA :> a) @@ (LeafX :> x) @@ (LeafW :> w) @@ (LeafR :> r)) :
        a \in DirAttrs, x \in SmallFiles, w \in SmallFiles, r \in SmallFiles}
InitialTrees == NestedTrees \cup SiblingTrees \cup FlatTrees \cup TopTrees \cup ContentTrees

\* The directories of f were last modified at time 1, before any file of f.
OldDirectories(f) == \A p \in DOMAIN f : f[p].kind = "dir" => f[p].mtime = 1

Exists(f, p) == p \in DOMAIN f

\* Metadata::is_dir on symlink_metadata (walkdir does not follow links).
IsDir(f, p) == Exists(f, p) /\ f[p].kind = "dir"

Children(f, d) == {p \in DOMAIN f : Parent(p) = d}

\* fs::read_dir: the entries of d, in listing order.
ReadDir(f, d) == SelectSeq(ListingOrder, LAMBDA p : p \in Children(f, d))

\* A successful unlink()/rmdir() of p: p is gone and its parent is modified.
Unlink(f, p) ==
    LET rest == [q \in (DOMAIN f) \ {p} |-> f[q]]
    IN  IF Exists(rest, Parent(p))
        THEN [rest EXCEPT ![Parent(p)].mtime = Now]
        ELSE rest

\* fs::remove_dir succeeds only on an existing, empty directory.
RemoveDirOk(f, d) == IsDir(f, d) /\ Children(f, d) = {}

(***************************************************************************)
(* u64 arithmetic.  A u64 is represented by an integer r of small          *)
(* magnitude that stands for r mod 2^64: a negative r is the wrapped value *)
(* 2^64 + r.                                                               *)
(***************************************************************************)
U64Sub(a, b) == a - b

\* a <= b, unsigned
U64Leq(a, b) == IF (a < 0) = (b < 0) THEN a <= b ELSE b < 0

\* a - b overflows: debug builds panic here, release builds wrap.
SubOverflows(a, b) == ~U64Leq(b, a)

(***************************************************************************)
(* walkdir                                                                 *)
(*                                                                         *)
(* IntoIter keeps a stack of directory listings; the entries of the        *)
(* listing at height k have depth k - 1, and the walk starts with the      *)
(* listing that holds the root alone.  handle_entry reads (and, with a     *)
(* sorter, collects and sorts) a directory's listing when the directory's  *)
(* own entry is taken from its parent's listing, before it is yielded.     *)
(***************************************************************************)
\* F(v), with v evaluated once (a LET definition is evaluated at every use).
Bind(v, F(_)) == CHOOSE w \in {F(x) : x \in {v}} : TRUE

\* Metadata::mtime, the key of sort_by_key in pass 2.
MtimeKey(f, p) == f[p].mtime

\* Vec::sort_by with the comparison of the keys: a stable insertion of e.
RECURSIVE InsertByKey(_, _, _)
InsertByKey(f, sorted, e) ==
    IF sorted = <<>> THEN <<e>>
    ELSE IF MtimeKey(f, e) < MtimeKey(f, Head(sorted))
         THEN <<e>> \o sorted
         ELSE <<Head(sorted)>> \o InsertByKey(f, Tail(sorted), e)

RECURSIVE SortByKey(_, _)
SortByKey(f, list) ==
    IF list = <<>> THEN <<>>
    ELSE Bind(SortByKey(f, SubSeq(list, 1, Len(list) - 1)),
              LAMBDA front : InsertByKey(f, front, list[Len(list)]))

\* A variant of PushDir that never sorts.
PushDir_Unsorted(f, d, sorter) == ReadDir(f, d)

\* IntoIter::push: the listing of directory d, sorted when a sorter is set.
PushDir(f, d, sorter) ==
    Bind(ReadDir(f, d), LAMBDA list : IF sorter THEN SortByKey(f, list) ELSE list)

\* WalkDir::new(&directory).into_iter()
StartWalk == << <<Directory>> >>

\* IntoIter::next: [found, path, stack].
RECURSIVE IterNext(_, _, _)
IterNext(stk, f, sorter) ==
    IF stk = <<>> THEN [found |-> FALSE, path |-> <<>>, stack |-> <<>>]
    ELSE LET h == Len(stk)
             top == stk[h]
         IN  IF top = <<>> THEN IterNext(SubSeq(stk, 1, h - 1), f, sorter)
             ELSE LET dent == Head(top)
                      rest == [stk EXCEPT ![h] = Tail(top)]
                      next == IF IsDir(f, dent)
                              THEN Append(rest, PushDir(f, dent, sorter))
                              ELSE rest
                  IN  IF h - 1 < MinDepth THEN IterNext(next, f, sorter)
                      ELSE [found |-> TRUE, path |-> dent, stack |-> next]

\* Every entry a walk yields, in order: r is what IntoIter::next returned.
RECURSIVE WalkAll(_, _, _)
WalkFrom(r, f, sorter) ==
    IF r.found THEN <<r.path>> \o WalkAll(r.stack, f, sorter) ELSE <<>>
WalkAll(stk, f, sorter) ==
    Bind(IterNext(stk, f, sorter), LAMBDA r : WalkFrom(r, f, sorter))

(***************************************************************************)
(* Pass 1                                                                  *)
(***************************************************************************)
\* A variant of counted_file_type that leaves symbolic links out.
counted_file_type_FilesOnly(ty) == ty = "file"

\* counted_file_type
counted_file_type(ty) == ty = "file" \/ ty = "symlink"

RECURSIVE SumSizes(_, _)
SumSizes(f, entries) ==
    IF entries = <<>> THEN 0
    ELSE f[Head(entries)].size + SumSizes(f, Tail(entries))

\* The iterator chain of lines 96-107: walk, filter, map to size, sum.
InitialSize(f) ==
    Bind(SelectSeq(WalkAll(StartWalk, f, FALSE), LAMBDA p : counted_file_type(f[p].kind)),
         LAMBDA counted : SumSizes(f, counted))

(***************************************************************************)
(* Pass 2                                                                  *)
(***************************************************************************)
Line(m, p, s) == [msg |-> m, path |-> p, size |-> s]
\* A removal that was attempted, and whether it succeeded.
Op(o, p, ok) == [op |-> o, path |-> p, ok |-> ok]

\* remove_empty_ancestors, from ancestor upwards: [fs, ops, out].
RECURSIVE PruneFrom(_, _, _, _)
\* A variant of PruneFrom without the starts_with test of lines 156-158.
PruneFrom_NoBoundary(f, path, ancestor, within) ==
    IF ~RemoveDirOk(f, ancestor)
    THEN [fs |-> f, ops |-> <<Op("remove_dir", ancestor, FALSE)>>, out |-> <<>>]
    ELSE LET up == PruneFrom(Unlink(f, ancestor), path, Parent(ancestor), within)
         IN  [fs |-> up.fs,
              ops |-> <<Op("remove_dir", ancestor, TRUE)>> \o up.ops,
              out |-> <<Line("deleted empty ancestor", path, 0)>> \o up.out]

PruneFrom(f, path, ancestor, within) ==
    IF ~StartsWith(ancestor, within)
    THEN [fs |-> f, ops |-> <<>>, out |-> <<>>]
    ELSE IF ~RemoveDirOk(f, ancestor)
    THEN [fs |-> f, ops |-> <<Op("remove_dir", ancestor, FALSE)>>, out |-> <<>>]
    ELSE Bind(Unlink(f, ancestor), LAMBDA g :
         Bind(PruneFrom(g, path, Parent(ancestor), within), LAMBDA up :
             [fs |-> up.fs,
              ops |-> <<Op("remove_dir", ancestor, TRUE)>> \o up.ops,
              out |-> <<Line("deleted empty ancestor", path, 0)>> \o up.out]))

\* A variant of remove_empty_ancestors that stops after the parent.
remove_empty_ancestors_ParentOnly(f, path, within) ==
    LET parent == Parent(path)
    IN  IF ~StartsWith(parent, within)
        THEN [fs |-> f, ops |-> <<>>, out |-> <<>>]
        ELSE IF ~RemoveDirOk(f, parent)
        THEN [fs |-> f, ops |-> <<Op("remove_dir", parent, FALSE)>>, out |-> <<>>]
        ELSE [fs |-> Unlink(f, parent),
              ops |-> <<Op("remove_dir", parent, TRUE)>>,
              out |-> <<Line("deleted empty ancestor", path, 0)>>]

\* path.ancestors().skip(1) starts at the parent of path.
remove_empty_ancestors(f, path, within) == PruneFrom(f, path, Parent(path), within)

\* Variants of EntryStep: one that deletes in a dry run too, one that subtracts
\* the size only when it deletes, and one that prunes whatever keep_parents is.
EntryStep_IgnoresDryRun(f, path, sz, dry, keep) ==
    LET newsize == U64Sub(sz, f[path].size)
        action == IF dry THEN "would delete" ELSE "deleting"
        gone == Unlink(f, path)
        pr == remove_empty_ancestors(gone, path, Directory)
    IN  IF keep
        THEN [fs |-> gone, size |-> newsize, ops |-> <<Op("remove_file", path, TRUE)>>,
              out |-> <<Line(action, path, newsize)>>]
        ELSE [fs |-> pr.fs, size |-> newsize,
              ops |-> <<Op("remove_file", path, TRUE)>> \o pr.ops,
              out |-> <<Line(action, path, newsize)>> \o pr.out]

EntryStep_SubtractsOnlyWhenDeleting(f, path, sz, dry, keep) ==
    LET newsize == U64Sub(sz, f[path].size)
        gone == Unlink(f, path)
        pr == remove_empty_ancestors(gone, path, Directory)
    IN  IF dry
        THEN [fs |-> f, size |-> sz, ops |-> <<>>,
              out |-> <<Line("would delete", path, sz)>>]
        ELSE IF keep
        THEN [fs |-> gone, size |-> newsize, ops |-> <<Op("remove_file", path, TRUE)>>,
              out |-> <<Line("deleting", path, newsize)>>]
        ELSE [fs |-> pr.fs, size |-> newsize,
              ops |-> <<Op("remove_file", path, TRUE)>> \o pr.ops,
              out |-> <<Line("deleting", path, newsize)>> \o pr.out]

EntryStep_IgnoresKeepParents(f, path, sz, dry, keep) ==
    LET newsize == U64Sub(sz, f[path].size)
        gone == Unlink(f, path)
        pr == remove_empty_ancestors(gone, path, Directory)
    IN  IF dry
        THEN [fs |-> f, size |-> newsize, ops |-> <<>>,
              out |-> <<Line("would delete", path, newsize)>>]
        ELSE [fs |-> pr.fs, size |-> newsize,
              ops |-> <<Op("remove_file", path, TRUE)>> \o pr.ops,
              out |-> <<Line("deleting", path, newsize)>> \o pr.out]

\* The body of the loop for an entry that is not a directory, lines 133-145:
\* [fs, size, ops, out].
EntryStep(f, path, sz, dry, keep) ==
    LET newsize == U64Sub(sz, f[path].size)
        action == IF dry THEN "would delete" ELSE "deleting"
        report == <<Line(action, path, newsize)>>
    IN  IF dry THEN [fs |-> f, size |-> newsize, ops |-> <<>>, out |-> report]
        ELSE LET del == <<Op("remove_file", path, TRUE)>>
             IN  Bind(Unlink(f, path), LAMBDA gone :
                 IF keep THEN [fs |-> gone, size |-> newsize, ops |-> del, out |-> report]
                 ELSE Bind(remove_empty_ancestors(gone, path, Directory), LAMBDA pr :
                          [fs |-> pr.fs, size |-> newsize,
                           ops |-> del \o pr.ops, out |-> report \o pr.out]))

\* Variants of the two comparisons with < for <=.
NoNeedToDelete_Strict(sz, g) == sz # g /\ U64Leq(sz, g)
UnderLimit_Strict(sz, g) == sz # g /\ U64Leq(sz, g)

\* line 110
NoNeedToDelete(sz, g) == U64Leq(sz, g)

\* line 147
UnderLimit(sz, g) == U64Leq(sz, g)

(***************************************************************************)
(* The run                                                                 *)
(***************************************************************************)
VARIABLES
    fs,            \* the file system under (and including) Directory
    fs0,           \* the file system when the run started
    dry_run,       \* Args.dry_run
    keep_parents,  \* Args.keep_parents
    goal,          \* Args.size
    size,          \* main's running size
    stack,         \* the listings of pass 2's walk
    pc,            \* "start", "counted", "walk", "done", "panicked"
    out,           \* the lines written to stderr
    ops            \* the removals attempted, in order

vars == <<fs, fs0, dry_run, keep_parents, goal, size, stack, pc, out, ops>>

Init ==
    /\ fs \in InitialTrees
    /\ fs0 = fs
    /\ dry_run \in BOOLEAN
    /\ keep_parents \in BOOLEAN
    /\ goal \in 0..MaxGoal
    /\ size = 0
    /\ stack = <<>>
    /\ pc = "start"
    /\ out = <<>>
    /\ ops = <<>>

\* lines 96-109
Pass1 ==
    /\ pc = "start"
    /\ size' = InitialSize(fs)
    /\ out' = Append(out, Line("initial size is", <<>>, size'))
    /\ pc' = "counted"
    /\ UNCHANGED <<fs, fs0, dry_run, keep_parents, goal, stack, ops>>

\* lines 110-113
NothingToDo ==
    /\ pc = "counted"
    /\ NoNeedToDelete(size, goal)
    /\ out' = Append(out, Line("no need to delete anything, exiting", <<>>, 0))
    /\ pc' = "done"
    /\ UNCHANGED <<fs, fs0, dry_run, keep_parents, goal, size, stack, ops>>

\* lines 115-117: the ordered walk is created
BeginWalk ==
    /\ pc = "counted"
    /\ ~NoNeedToDelete(size, goal)
    /\ stack' = StartWalk
    /\ pc' = "walk"
    /\ UNCHANGED <<fs, fs0, dry_run, keep_parents, goal, size, out, ops>>

\* IntoIter::next of the walk of pass 2, as the for loop calls it.
NextEntry == IterNext(stack, fs, TRUE)

\* lines 117-131: the walk yields a directory, which is skipped
SkipDirectory ==
    /\ pc = "walk"
    /\ \E r \in {NextEntry} :
          /\ r.found
          /\ IsDir(fs, r.path)
          /\ stack' = r.stack
    /\ UNCHANGED <<fs, fs0, dry_run, keep_parents, goal, size, pc, out, ops>>

\* lines 117-150: the walk yields an entry that is not a directory
ProcessEntry ==
    /\ pc = "walk"
    /\ \E r \in {NextEntry} :
          /\ r.found
          /\ Exists(fs, r.path)
          /\ ~IsDir(fs, r.path)
          /\ \E e \in {EntryStep(fs, r.path, size, dry_run, keep_parents)} :
                /\ fs' = e.fs
                /\ size' = e.size
                /\ ops' = ops \o e.ops
                /\ stack' = r.stack
                /\ IF UnderLimit(e.size, goal)
                   THEN /\ out' = out \o e.out
                                  \o <<Line("size is now under limit, exiting", <<>>, 0)>>
                        /\ pc' = "done"
                   ELSE /\ out' = out \o e.out
                        /\ pc' = "walk"
    /\ UNCHANGED <<fs0, dry_run, keep_parents, goal>>

\* line 134 in a build with overflow checks: the subtraction panics
SubtractPanics ==
    /\ pc = "walk"
    /\ \E r \in {NextEntry} :
          /\ r.found
          /\ Exists(fs, r.path)
          /\ ~IsDir(fs, r.path)
          /\ SubOverflows(size, fs[r.path].size)
          /\ stack' = r.stack
    /\ pc' = "panicked"
    /\ UNCHANGED <<fs, fs0, dry_run, keep_parents, goal, size, out, ops>>

\* A variant of WalkExhausted that walks the directory again until the goal is
\* reached.
WalkExhausted_WalksAgain ==
    /\ pc = "walk"
    /\ ~NextEntry.found
    /\ stack' = StartWalk
    /\ pc' = "walk"
    /\ UNCHANGED <<fs, fs0, dry_run, keep_parents, goal, size, out, ops>>

\* line 151: the walk is exhausted
WalkExhausted ==
    /\ pc = "walk"
    /\ ~NextEntry.found
    /\ stack' = <<>>
    /\ pc' = "done"
    /\ UNCHANGED <<fs, fs0, dry_run, keep_parents, goal, size, out, ops>>

Next ==
    \/ Pass1
    \/ NothingToDo
    \/ BeginWalk
    \/ SkipDirectory
    \/ ProcessEntry
    \/ SubtractPanics
    \/ WalkExhausted

Spec == Init /\ [][Next]_vars

\* main is one sequential process: while a step is possible, one is taken.
\* The runs start on the trees of Init whose directories were last modified at
\* time 1.
InitLive == Init /\ OldDirectories(fs)
SpecLive == InitLive /\ [][Next]_vars /\ WF_vars(Next)

(***************************************************************************)
(* The run with calls that fail and a tree that other processes modify     *)
(*                                                                         *)
(* remove_dir may fail on an empty directory too (permission), remove_file *)
(* may fail, and between two steps of main another process may create a    *)
(* file beneath the directory or remove one.  An entry of a listing that   *)
(* was removed since the listing was read has no metadata any more.        *)
(***************************************************************************)
\* path.ancestors().skip(1), as far as the root.
AncestorsOf(path) == {SubSeq(path, 1, k) : k \in 1..(Len(path) - 1)}

\* The ways remove_dir can be refused in one call of remove_empty_ancestors:
\* not at all, or at one of the ancestors (the walk up ends at the first).
Denials(path) == {{}} \cup {{d} : d \in AncestorsOf(path)}

\* remove_empty_ancestors, from ancestor upwards, where remove_dir also fails on
\* the directories of denied: [fs, ops, out].
RECURSIVE PruneFromIO(_, _, _, _, _)
\* A variant of PruneFromIO that goes on to the next ancestor after a failure.
PruneFromIO_ContinuesAfterFailure(f, path, ancestor, within, denied) ==
    IF ~StartsWith(ancestor, within)
    THEN [fs |-> f, ops |-> <<>>, out |-> <<>>]
    ELSE IF ~RemoveDirOk(f, ancestor) \/ ancestor \in denied
    THEN LET up == PruneFromIO(f, path, Parent(ancestor), within, denied)
         IN  [fs |-> up.fs,
              ops |-> <<Op("remove_dir", ancestor, FALSE)>> \o up.ops,
              out |-> up.out]
    ELSE LET up == PruneFromIO(Unlink(f, ancestor), path, Parent(ancestor), within, denied)
         IN  [fs |-> up.fs,
              ops |-> <<Op("remove_dir", ancestor, TRUE)>> \o up.ops,
              out |-> <<Line("deleted empty ancestor", path, 0)>> \o up.out]

PruneFromIO(f, path, ancestor, within, denied) ==
    IF ~StartsWith(ancestor, within)
    THEN [fs |-> f, ops |-> <<>>, out |-> <<>>]
    ELSE IF ~RemoveDirOk(f, ancestor) \/ ancestor \in denied
    THEN [fs |-> f, ops |-> <<Op("remove_dir", ancestor, FALSE)>>, out |-> <<>>]
    ELSE LET up == PruneFromIO(Unlink(f, ancestor), path, Parent(ancestor), within, denied)
         IN  [fs |-> up.fs,
              ops |-> <<Op("remove_dir", ancestor, TRUE)>> \o up.ops,
              out |-> <<Line("deleted empty ancestor", path, 0)>> \o up.out]

\* A variant of EntryStepIO that guards against changes made by others: it
\* takes the size from the tree as it is now, not from the running total.
EntryStepIO_Recounts(f, path, sz, dry, keep, delfails, denied) ==
    LET newsize == U64Sub(InitialSize(f), f[path].size)
        action == IF dry THEN "would delete" ELSE "deleting"
        report == <<Line(action, path, newsize)>>
    IN  IF dry
        THEN [fs |-> f, size |-> newsize, ops |-> <<>>, out |-> report, fatal |-> FALSE]
        ELSE IF delfails
        THEN [fs |-> f, size |-> newsize, ops |-> <<Op("remove_file", path, FALSE)>>,
              out |-> report \o <<Line("error deleting", path, 0)>>, fatal |-> TRUE]
        ELSE LET gone == Unlink(f, path)
                 del == <<Op("remove_file", path, TRUE)>>
                 pr == PruneFromIO(gone, path, Parent(path), Directory, denied)
             IN  IF keep
                 THEN [fs |-> gone, size |-> newsize, ops |-> del, out |-> report,
                       fatal |-> FALSE]
                 ELSE [fs |-> pr.fs, size |-> newsize, ops |-> del \o pr.ops,
                       out |-> report \o pr.out, fatal |-> FALSE]

\* A variant of EntryStepIO that takes a failed remove_file as a warning: it
\* goes on to prune and does not abort.
EntryStepIO_DeletionFailureNotFatal(f, path, sz, dry, keep, delfails, denied) ==
    LET newsize == U64Sub(sz, f[path].size)
        action == IF dry THEN "would delete" ELSE "deleting"
        report == <<Line(action, path, newsize)>>
        gone == IF delfails THEN f ELSE Unlink(f, path)
        del == <<Op("remove_file", path, ~delfails)>>
        pr == PruneFromIO(gone, path, Parent(path), Directory, denied)
    IN  IF dry
        THEN [fs |-> f, size |-> newsize, ops |-> <<>>, out |-> report, fatal |-> FALSE]
        ELSE IF keep
        THEN [fs |-> gone, size |-> newsize, ops |-> del, out |-> report, fatal |-> FALSE]
        ELSE [fs |-> pr.fs, size |-> newsize, ops |-> del \o pr.ops,
              out |-> report \o pr.out, fatal |-> FALSE]

\* The body of the loop for an entry that is not a directory, lines 133-145,
\* where remove_file fails when delfails: [fs, size, ops, out, fatal].  unwrap_io
\* panics with "error deleting <path>" (lines 40-47, 140).
EntryStepIO(f, path, sz, dry, keep, delfails, denied) ==
    LET newsize == U64Sub(sz, f[path].size)
        action == IF dry THEN "would delete" ELSE "deleting"
        report == <<Line(action, path, newsize)>>
    IN  IF dry
        THEN [fs |-> f, size |-> newsize, ops |-> <<>>, out |-> report, fatal |-> FALSE]
        ELSE IF delfails
        THEN [fs |-> f, size |-> newsize, ops |-> <<Op("remove_file", path, FALSE)>>,
              out |-> report \o <<Line("error deleting", path, 0)>>, fatal |-> TRUE]
        ELSE LET gone == Unlink(f, path)
                 del == <<Op("remove_file", path, TRUE)>>
             IN  IF keep
                 THEN [fs |-> gone, size |-> newsize, ops |-> del, out |-> report,
                       fatal |-> FALSE]
                 ELSE LET pr == PruneFromIO(gone, path, Parent(path), Directory, denied)
                      IN  [fs |-> pr.fs, size |-> newsize, ops |-> del \o pr.ops,
                           out |-> report \o pr.out, fatal |-> FALSE]

\* lines 117-150 with calls that may fail
ProcessEntryIO ==
    /\ pc = "walk"
    /\ \E r \in {NextEntry} :
          /\ r.found
          /\ Exists(fs, r.path)
          /\ ~IsDir(fs, r.path)
          /\ \E delfails \in BOOLEAN, denied \in Denials(r.path) :
                \E e \in {EntryStepIO(fs, r.path, size, dry_run, keep_parents,
                                      delfails, denied)} :
                   /\ fs' = e.fs
                   /\ size' = e.size
                   /\ ops' = ops \o e.ops
                   /\ stack' = r.stack
                   /\ IF e.fatal
                      THEN /\ out' = out \o e.out
                           /\ pc' = "panicked"
                      ELSE IF UnderLimit(e.size, goal)
                      THEN /\ out' = out \o e.out
                                     \o <<Line("size is now under limit, exiting", <<>>, 0)>>
                           /\ pc' = "done"
                      ELSE /\ out' = out \o e.out
                           /\ pc' = "walk"
    /\ UNCHANGED <<fs0, dry_run, keep_parents, goal>>

\* lines 125-128: the entry the walk yields is gone, symlink_metadata fails and
\* unwrap_io_lazy panics
MetadataFails ==
    /\ pc = "walk"
    /\ \E r \in {NextEntry} :
          /\ r.found
          /\ ~Exists(fs, r.path)
          /\ stack' = r.stack
          /\ out' = Append(out, Line("error getting metadata on", r.path, 0))
    /\ pc' = "panicked"
    /\ UNCHANGED <<fs, fs0, dry_run, keep_parents, goal, size, ops>>

\* The paths at which another process may create a file.
LeafPaths == {LeafR, LeafX, LeafW, LeafY, LeafZ}

\* The paths main itself removed.
RemovedByMain == {ops[i].path : i \in {j \in 1..Len(ops) : ops[j].ok}}
\* The paths other processes created and removed since the run started (a path
\* is created or removed by them at most once).
CreatedByOthers == ((DOMAIN fs) \cup RemovedByMain) \ (DOMAIN fs0)
RemovedByOthers == ((DOMAIN fs0) \ RemovedByMain) \ (DOMAIN fs)
ExternalChanges == Cardinality(CreatedByOthers) + Cardinality(RemovedByOthers)

\* Another process creates a regular file in a directory of the tree, once
\* pass 1 has summed the sizes.
ExternalCreate ==
    /\ pc \in {"counted", "walk"}
    /\ ExternalChanges < MaxExternal
    /\ \E p \in LeafPaths, sz \in Sizes :
          /\ ~Exists(fs, p)
          /\ ~Exists(fs0, p)
          /\ p \notin RemovedByMain
          /\ IsDir(fs, Parent(p))
          /\ fs' = [q \in (DOMAIN fs) \cup {p} |->
                      IF q = p THEN [kind |-> "file", size |-> sz, mtime |-> Now]
                      ELSE IF q = Parent(p) THEN [fs[q] EXCEPT !.mtime = Now]
                      ELSE fs[q]]
    /\ UNCHANGED <<fs0, dry_run, keep_parents, goal, size, stack, pc, out, ops>>

\* Another process removes an entry that is not a directory.
ExternalRemove ==
    /\ pc \in {"counted", "walk"}
    /\ ExternalChanges < MaxExternal
    /\ \E p \in DOMAIN fs :
          /\ ~IsDir(fs, p)
          /\ Exists(fs0, p)
          /\ fs' = Unlink(fs, p)
    /\ UNCHANGED <<fs0, dry_run, keep_parents, goal, size, stack, pc, out, ops>>

NextIO ==
    \/ Pass1
    \/ NothingToDo
    \/ BeginWalk
    \/ SkipDirectory
    \/ ProcessEntryIO
    \/ SubtractPanics
    \/ WalkExhausted
    \/ MetadataFails
    \/ ExternalCreate
    \/ ExternalRemove

\* The trees of this specification: the file beside a directory (r, a/x) and
\* the nested directory with one file (a/c/y, or a/x beside a/c), with regular
\* files and directories last modified at time 1.
IOTrees ==
    {f \in NestedTrees \cup TopTrees :
        /\ \A p \in DOMAIN f : f[p].kind \in {"dir", "file"}
        /\ OldDirectories(f)
        /\ ~({LeafX, LeafY} \subseteq DOMAIN f)}

InitIO == Init /\ fs \in IOTrees

SpecIO == InitIO /\ [][NextIO]_vars

(***************************************************************************)
(* What the properties speak of                                            *)
(***************************************************************************)
\* The entries strictly beneath the root that are regular files or symlinks.
Eligible(f) == {p \in (DOMAIN f) \ {Directory} : f[p].kind \in {"file", "symlink"}}

RECURSIVE SetSum(_, _)
SetSum(f, S) ==
    IF S = {} THEN 0
    ELSE LET p == CHOOSE q \in S : TRUE IN f[p].size + SetSum(f, S \ {p})

\* The aggregate counted size of a tree.
CountedSize(f) == SetSum(f, Eligible(f))

Directories(f) == {p \in DOMAIN f : f[p].kind = "dir"}

\* The paths given to remove_file, in order.
DeletedFiles == SelectSeq(ops, LAMBDA o : o.op = "remove_file")

\* The "deleting"/"would delete" lines of stderr, in order.
Reported == SelectSeq(out, LAMBDA l : l.msg \in {"deleting", "would delete"})

LastLine == out[Len(out)]
EndedUnderLimit == pc = "done" /\ LastLine.msg = "size is now under limit, exiting"
EndedNothingToDo == pc = "done" /\ LastLine.msg = "no need to delete anything, exiting"

(***************************************************************************)
(* C1: a non-dry run on a tree over the goal that ends without a panic     *)
(* leaves the counted size of the tree at or below the goal, or leaves no  *)
(* regular file or symlink.                                                *)
(***************************************************************************)
C1_EndsUnderGoalOrExhausted ==
    (pc = "done" /\ ~dry_run /\ CountedSize(fs0) > goal)
        => (CountedSize(fs) <= goal \/ Eligible(fs) = {})

(***************************************************************************)
(* C2: the files deleted in one run are deleted in non-decreasing order of *)
(* modification time, across the whole tree.                               *)
(***************************************************************************)
C2_DeletedInGlobalMtimeOrder ==
    \A i, j \in 1..Len(DeletedFiles) :
        i < j => fs0[DeletedFiles[i].path].mtime <= fs0[DeletedFiles[j].path].mtime

(***************************************************************************)
(* C3: on a tree whose counted size is at or below the goal the run        *)
(* reports the size and that nothing needs deleting, never starts the      *)
(* second walk, attempts no removal and leaves the tree as it was,         *)
(* whatever dry_run and keep_parents are.                                  *)
(***************************************************************************)
C3_NothingToDo ==
    CountedSize(fs0) <= goal =>
        /\ pc \in {"start", "counted", "done"}
        /\ stack = <<>>
        /\ ops = <<>>
        /\ fs = fs0
        /\ pc = "done" =>
              out = <<Line("initial size is", <<>>, CountedSize(fs0)),
                      Line("no need to delete anything, exiting", <<>>, 0)>>

C3_Witness ==
    /\ EndedNothingToDo
    /\ CountedSize(fs0) = goal
    /\ Eligible(fs0) # {}
    /\ fs = fs0

(***************************************************************************)
(* C4: a dry run attempts no removal, of a file or of a directory, and the *)
(* tree is at every step the tree the run started with.                    *)
(***************************************************************************)
C4_DryRunMutatesNothing ==
    dry_run => (fs = fs0 /\ ops = <<>>)

C4_Witness ==
    /\ dry_run
    /\ ~keep_parents
    /\ pc = "done"
    /\ Len(Reported) = 2
    /\ fs = fs0

(***************************************************************************)
(* C5: the (path, new running size) pairs a non-dry run reports are the    *)
(* pairs the dry run of the same tree, goal and build reports: the loop of *)
(* lines 117-151 run with dry_run set on the tree as it was.  A run that   *)
(* ended has reported them all; a run that panicked has reported the pairs *)
(* before the subtraction that overflows.                                  *)
(***************************************************************************)
\* The pairs the loop reports from the state (stk, f, sz) on when it wraps on
\* overflow and runs to its end; r is the entry the walk yields next and e what
\* the body of the loop does with it.
RECURSIVE RunLoop(_, _, _, _, _, _)
RunBody(r, e, g, dry, keep) ==
    IF UnderLimit(e.size, g) THEN <<<<e.out[1].path, e.out[1].size>>>>
    ELSE <<<<e.out[1].path, e.out[1].size>>>> \o RunLoop(r.stack, e.fs, e.size, g, dry, keep)
RunEntry(r, f, sz, g, dry, keep) ==
    IF ~r.found THEN <<>>
    ELSE IF IsDir(f, r.path) THEN RunLoop(r.stack, f, sz, g, dry, keep)
    ELSE Bind(EntryStep(f, r.path, sz, dry, keep), LAMBDA e : RunBody(r, e, g, dry, keep))
RunLoop(stk, f, sz, g, dry, keep) ==
    Bind(IterNext(stk, f, TRUE), LAMBDA r : RunEntry(r, f, sz, g, dry, keep))

DryRunReport ==
    Bind(InitialSize(fs0), LAMBDA total :
        IF NoNeedToDelete(total, goal) THEN <<>>
        ELSE RunLoop(StartWalk, fs0, total, goal, TRUE, keep_parents))

ReportedPairs == [i \in 1..Len(Reported) |-> <<Reported[i].path, Reported[i].size>>]

C5_SameReportAsDryRun ==
    (~dry_run /\ pc \in {"done", "panicked"}) =>
        \A dry \in {DryRunReport}, wet \in {ReportedPairs} :
            /\ pc = "done" => wet = dry
            /\ pc = "panicked" =>
                  /\ Len(wet) < Len(dry)
                  /\ wet = SubSeq(dry, 1, Len(wet))
                  /\ dry[Len(wet) + 1][2] < 0

C5_Witness ==
    /\ ~dry_run
    /\ ~keep_parents
    /\ pc = "done"
    /\ Len(ReportedPairs) = 2
    /\ \E i \in 1..Len(ops) :
          /\ ops[i].op = "remove_dir" /\ ops[i].ok
          /\ \E j \in (i + 1)..Len(ops) : ops[j].op = "remove_file"

(***************************************************************************)
(* C6: every path given to remove_file is a regular file or a symlink; a   *)
(* directory goes only by remove_dir, and only when it is empty.           *)
(***************************************************************************)
\* The paths that exist after the first k removals of ops.
PathsAfter(k) == (DOMAIN fs0) \ {ops[i].path : i \in {j \in 1..k : ops[j].ok}}
EmptyAfter(d, k) == \A q \in PathsAfter(k) : Parent(q) # d

C6_OnlyFilesAndSymlinksDeleted ==
    /\ \A k \in 1..Len(ops) :
          /\ ops[k].op = "remove_file" => fs0[ops[k].path].kind \in {"file", "symlink"}
          /\ (ops[k].op = "remove_dir" /\ ops[k].ok) => EmptyAfter(ops[k].path, k - 1)
    /\ \A d \in Directories(fs0) \ Directories(fs) :
          \E k \in 1..Len(ops) : ops[k] = Op("remove_dir", d, TRUE)

(***************************************************************************)
(* C7: the size pass 1 computes and reports is the sum of the sizes of the *)
(* regular files and symlinks strictly beneath the root, at every depth.   *)
(***************************************************************************)
C7_Pass1CountsFilesAndSymlinks ==
    pc # "start" =>
        /\ out[1] = Line("initial size is", <<>>, CountedSize(fs0))
        /\ pc = "counted" => size = CountedSize(fs0)

C7_Witness ==
    /\ pc = "counted"
    /\ DOMAIN fs0 = {Directory, DirA, DirC, LeafX, LeafY}
    /\ fs0[LeafY].kind = "symlink" /\ fs0[LeafY].size = 2
    /\ fs0[LeafX].kind = "other" /\ fs0[LeafX].size = 1
    /\ size = 2

(***************************************************************************)
(* C8: in a non-dry run with keep_parents off, each remove_file is         *)
(* followed by remove_dir on the file's parent; a remove_dir succeeds      *)
(* exactly when the directory has no entry left; after a success on a      *)
(* directory beneath the root the next attempt is on its parent; and the   *)
(* walk up ends at the first directory that is not empty, which stays with *)
(* all above it, or after the root itself is removed.                      *)
(***************************************************************************)
C8_PruningCascade ==
    (~dry_run /\ ~keep_parents) =>
        /\ \A k \in 1..Len(ops) :
              /\ ops[k].op = "remove_file" =>
                    /\ k < Len(ops)
                    /\ ops[k + 1].op = "remove_dir"
                    /\ ops[k + 1].path = Parent(ops[k].path)
              /\ ops[k].op = "remove_dir" =>
                    /\ ops[k].ok = EmptyAfter(ops[k].path, k - 1)
                    /\ (ops[k].ok /\ ops[k].path # Directory) =>
                          /\ k < Len(ops)
                          /\ ops[k + 1].op = "remove_dir"
                          /\ ops[k + 1].path = Parent(ops[k].path)
                    /\ (~ops[k].ok \/ ops[k].path = Directory) =>
                          (k = Len(ops) \/ ops[k + 1].op = "remove_file")
        /\ DOMAIN fs = PathsAfter(Len(ops))

\* a/c/y was the last entry: a/c, a and the root went, nearest first.
C8_Witness ==
    /\ ~dry_run
    /\ ~keep_parents
    /\ Len(ops) >= 4
    /\ SubSeq(ops, Len(ops) - 3, Len(ops)) =
          <<Op("remove_file", LeafY, TRUE), Op("remove_dir", DirC, TRUE),
            Op("remove_dir", DirA, TRUE), Op("remove_dir", Directory, TRUE)>>
    /\ DOMAIN fs = {}

(***************************************************************************)
(* C9: with keep_parents on, no removal of a directory is attempted and    *)
(* the directories of the tree are those the run started with.             *)
(***************************************************************************)
C9_KeepParentsKeepsDirectories ==
    keep_parents =>
        /\ Directories(fs) = Directories(fs0)
        /\ \A k \in 1..Len(ops) : ops[k].op # "remove_dir"

C9_Witness ==
    /\ keep_parents
    /\ ~dry_run
    /\ pc = "done"
    /\ {LeafX, LeafY} \subseteq DOMAIN fs0
    /\ DOMAIN fs = {Directory, DirA, DirC}

(***************************************************************************)
(* C10: the loop is entered only while the running size is above the goal; *)
(* when the run has ended, the entries it processed are the first of the   *)
(* ordered walk, the one that brought the size to the goal or below is the *)
(* last of them, the run ended there, and the entries later in the walk    *)
(* are as they were.                                                       *)
(***************************************************************************)
\* The entries of the ordered walk of the initial tree that are not directories.
WalkOrder0 == SelectSeq(WalkAll(StartWalk, fs0, TRUE), LAMBDA p : ~IsDir(fs0, p))

C10_StopsAtFirstUnderLimit ==
    /\ pc = "walk" => ~U64Leq(size, goal)
    /\ pc \in {"done", "panicked"} =>
          \A order \in {WalkOrder0}, rep \in {Reported} :
              /\ rep # <<>> => ~U64Leq(out[1].size, goal)
              /\ \A i \in 1..Len(rep) :
                    /\ rep[i].path = order[i]
                    /\ U64Leq(rep[i].size, goal) => (i = Len(rep) /\ EndedUnderLimit)
              /\ EndedUnderLimit =>
                    \A i \in (Len(rep) + 1)..Len(order) :
                        /\ order[i] \in DOMAIN fs
                        /\ fs[order[i]] = fs0[order[i]]

C10_Witness ==
    /\ EndedUnderLimit
    /\ ~dry_run
    /\ Len(Reported) = 1
    /\ Len(WalkOrder0) = 2
    /\ WalkOrder0[2] \in DOMAIN fs

(***************************************************************************)
(* C11: every remove_dir is attempted on a directory that is the root or   *)
(* beneath it and that is a proper ancestor of the file removed in the     *)
(* same step; one that succeeds removes a directory that exists and has no *)
(* entry at that moment; and nothing leaves the tree but the one path of   *)
(* each successful removal (no removal takes a subtree with it).           *)
(***************************************************************************)
\* The index in ops of the remove_file of the step that made attempt k.
StepFile(k) == CHOOSE j \in 1..k : /\ ops[j].op = "remove_file"
                                   /\ \A i \in (j + 1)..k : ops[i].op = "remove_dir"
ProperAncestor(d, p) == Len(d) < Len(p) /\ StartsWith(p, d)

C11_PrunesOnlyEmptyAncestorsWithin ==
    /\ \A k \in 1..Len(ops) :
          /\ ops[k].ok => ops[k].path \in PathsAfter(k - 1)
          /\ ops[k].op = "remove_dir" =>
                /\ StartsWith(ops[k].path, Directory)
                /\ \E j \in 1..(k - 1) : ops[j].op = "remove_file"
                /\ ProperAncestor(ops[k].path, ops[StepFile(k)].path)
                /\ ops[k].ok => /\ fs0[ops[k].path].kind = "dir"
                                /\ EmptyAfter(ops[k].path, k - 1)
    /\ DOMAIN fs = PathsAfter(Len(ops))

\* Both files of two sibling directories went, then b, then the root itself.
C11_Witness ==
    /\ pc = "done"
    /\ Len(ops) >= 3
    /\ SubSeq(ops, Len(ops) - 2, Len(ops)) =
          <<Op("remove_file", LeafZ, TRUE), Op("remove_dir", DirB, TRUE),
            Op("remove_dir", Directory, TRUE)>>
    /\ Op("remove_dir", DirA, TRUE) \in {ops[i] : i \in 1..Len(ops)}

(***************************************************************************)
(* C12: where remove_dir can fail for any reason, a failed remove_dir is   *)
(* the last attempt made for its file (the next attempt, if any, is the    *)
(* remove_file of a later entry), and the step in which it fails ends as a *)
(* step of the loop does: the size is the old size less the entry's, the   *)
(* walk has advanced by the one entry, no error is written, and the run    *)
(* is done with "size is now under limit" if the size is at or below the   *)
(* goal and in the loop otherwise; it never panics.                        *)
(***************************************************************************)
FailedPrune(log, k) == log[k].op = "remove_dir" /\ ~log[k].ok

\* A step whose last attempt is a remove_dir that fails.
PruneFails == Len(ops') > Len(ops) /\ FailedPrune(ops', Len(ops'))

C12_FailedPruneOnlyEndsAncestorWalk ==
    /\ [](\A k \in 1..Len(ops) :
             FailedPrune(ops, k) => (k = Len(ops) \/ ops[k + 1].op = "remove_file"))
    /\ [][PruneFails =>
             /\ size' = U64Sub(size, fs[NextEntry.path].size)
             /\ stack' = NextEntry.stack
             /\ \A i \in (Len(out) + 1)..Len(out') :
                   out'[i].msg \in {"deleting", "deleted empty ancestor",
                                    "size is now under limit, exiting"}
             /\ IF UnderLimit(size', goal)
                THEN /\ pc' = "done"
                     /\ out'[Len(out')].msg = "size is now under limit, exiting"
                ELSE /\ pc' = "walk"
                     /\ out'[Len(out')].msg # "size is now under limit, exiting"]_vars

\* a/x went and remove_dir failed on a, which was empty; then r went, and the
\* root, which still holds a, stayed.
C12_Witness ==
    /\ pc = "done"
    /\ DOMAIN fs = {Directory, DirA}
    /\ \E k \in 1..(Len(ops) - 1) :
          /\ ops[k] = Op("remove_dir", DirA, FALSE)
          /\ ops[k - 1] = Op("remove_file", LeafX, TRUE)
          /\ ops[k + 1] = Op("remove_file", LeafR, TRUE)

(***************************************************************************)
(* C13: a remove_file that fails is the last thing the run does: it is the *)
(* last attempt of the log (no retry, no pruning for it, no later entry),  *)
(* the run is not a dry run, it has panicked, the last line written is the *)
(* error with the operation ("deleting") and the path, and the file is     *)
(* still there.                                                            *)
(***************************************************************************)
C13_DeletionFailureIsFatal ==
    \A k \in 1..Len(ops) :
        (ops[k].op = "remove_file" /\ ~ops[k].ok) =>
            /\ k = Len(ops)
            /\ ~dry_run
            /\ pc = "panicked"
            /\ LastLine = Line("error deleting", ops[k].path, 0)
            /\ out[Len(out) - 1].msg = "deleting"
            /\ out[Len(out) - 1].path = ops[k].path
            /\ ops[k].path \in DOMAIN fs
            /\ \A i \in 1..(k - 1) : ops[i].path # ops[k].path

\* r went; the remove_file of a/x failed, and a/x and a are still there.
C13_Witness ==
    /\ pc = "panicked"
    /\ ~keep_parents
    /\ Len(ops) >= 2
    /\ ops[Len(ops)] = Op("remove_file", LeafX, FALSE)
    /\ ops[1] = Op("remove_file", LeafR, TRUE)
    /\ {LeafX, DirA} \subseteq DOMAIN fs

(***************************************************************************)
(* C14, as stated: the running size is the size pass 1 printed less the    *)
(* sizes of the files that were deleted, each deleted once.                *)
(***************************************************************************)
PathsOf(lines) == [i \in 1..Len(lines) |-> lines[i].path]
Distinct(paths) == \A i, j \in 1..Len(paths) : paths[i] = paths[j] => i = j

C14_DecrementedOncePerDeletedFile ==
    pc \in {"walk", "done", "panicked"} =>
        /\ Distinct(PathsOf(DeletedFiles))
        /\ size = U64Sub(out[1].size, SumSizes(fs0, PathsOf(DeletedFiles)))

(***************************************************************************)
(* C14, amended: the running size is decremented once per entry the loop   *)
(* processes, whether or not the run deletes it, by the size the entry had *)
(* in the tree before any removal.  No entry is processed twice, each      *)
(* reported size is the size pass 1 printed less the sizes of the entries  *)
(* processed so far, and the running size is the last of them.  In a       *)
(* non-dry run the entries processed are the files deleted, in order, so   *)
(* there the size is decremented once per deleted file; in a dry run the   *)
(* size is decremented and nothing is deleted.                             *)
(***************************************************************************)
C14_DecrementedOncePerProcessedEntry ==
    pc \in {"walk", "done", "panicked"} =>
        \A seen \in {PathsOf(Reported)} :
            /\ Distinct(seen)
            /\ \A i \in 1..Len(seen) :
                  Reported[i].size =
                      U64Sub(out[1].size, SumSizes(fs0, SubSeq(seen, 1, i)))
            /\ size = U64Sub(out[1].size, SumSizes(fs0, seen))
            /\ IF dry_run THEN DeletedFiles = <<>> ELSE PathsOf(DeletedFiles) = seen
            /\ \A i \in 1..Len(DeletedFiles) : DeletedFiles[i].ok

\* Two files of sizes 1 and 2 were deleted from a counted size of 3.
C14_Witness ==
    /\ ~dry_run
    /\ pc = "done"
    /\ out[1].size = 3
    /\ Len(DeletedFiles) = 2
    /\ fs0[DeletedFiles[1].path].size = 1
    /\ fs0[DeletedFiles[2].path].size = 2
    /\ size = 0

(***************************************************************************)
(* C15: every run ends: after "no need to delete anything", after "size is *)
(* now under limit", when the walk is exhausted with the size still above  *)
(* the goal, or in a panic; and no entry is processed twice on the way,    *)
(* whatever was deleted and pruned.                                        *)
(***************************************************************************)
EndedExhausted ==
    /\ pc = "done"
    /\ stack = <<>>
    /\ LastLine.msg \in {"deleting", "would delete", "deleted empty ancestor",
                         "initial size is"}
    /\ ~U64Leq(size, goal)

Ended == EndedNothingToDo \/ EndedUnderLimit \/ EndedExhausted \/ pc = "panicked"

C15_Terminates ==
    /\ <>[]Ended
    /\ [](pc = "done" => Ended)
    /\ [](Distinct(PathsOf(Reported)))

\* Every entry was processed and deleted, and the walk ended with the size
\* still above the goal.
C15_Witness ==
    /\ EndedExhausted
    /\ ~dry_run
    /\ Len(DeletedFiles) = 2
    /\ \A p \in DOMAIN fs : IsDir(fs, p)

(***************************************************************************)
(* C16: main takes no notice of what other processes do to the tree after  *)
(* pass 1.  The running size is the size pass 1 printed less the sizes of  *)
(* the entries processed since, whatever the tree holds by now; the run    *)
(* ends "under limit" exactly on that number; and so a run can end under   *)
(* the limit, without an error, over a tree whose counted size is above    *)
(* the goal and that still holds eligible files (C16_Witness).             *)
(***************************************************************************)
\* The running size before the i-th processed entry.
SizeBefore(i) == IF i = 1 THEN out[1].size ELSE Reported[i - 1].size

C16_RunningSizeIgnoresOtherProcesses ==
    pc \in {"walk", "done", "panicked"} =>
        /\ out[1].size = CountedSize(fs0)
        /\ size = SizeBefore(Len(Reported) + 1)
        /\ \A i \in 1..Len(Reported) :
              /\ Reported[i].path \in DOMAIN fs0 =>
                    Reported[i].size =
                        U64Sub(SizeBefore(i), fs0[Reported[i].path].size)
              /\ Reported[i].path \in DOMAIN fs =>
                    Reported[i].size =
                        U64Sub(SizeBefore(i), fs[Reported[i].path].size)
        /\ EndedUnderLimit => U64Leq(size, goal)
        /\ pc = "walk" => ~U64Leq(size, goal)

\* Another process created a file after pass 1; the run deleted what its
\* running size asked for and ended under the limit, above the goal on disk.
C16_Witness ==
    /\ EndedUnderLimit
    /\ ~dry_run
    /\ DeletedFiles # <<>>
    /\ CreatedByOthers # {}
    /\ RemovedByOthers = {}
    /\ Eligible(fs) # {}
    /\ CountedSize(fs) > goal

(***************************************************************************)
(* C17: in a non-dry run, once pass 1 is done and after every entry        *)
(* processed, the running size is the sum of the sizes of the regular      *)
(* files and symlinks that are in the tree.                                *)
(***************************************************************************)
C17_RunningSizeIsCountedSize ==
    (~dry_run /\ pc \in {"counted", "walk", "done"}) => size = CountedSize(fs)

(***************************************************************************)
(* C18: the subtraction of line 134 never overflows: the run never panics  *)
(* on it and the running size never wraps.                                 *)
(***************************************************************************)
C18_SubtractionNeverOverflows ==
    /\ pc # "panicked"
    /\ size >= 0
    /\ pc = "walk" =>
          \A r \in {NextEntry} :
              (r.found /\ ~IsDir(fs, r.path)) => ~SubOverflows(size, fs[r.path].size)

(***************************************************************************)
(* C19: the entries pass 2 processes come in the order of the walk, which  *)
(* sorts each directory by modification time.  For two processed entries,  *)
(* take the directory where their paths part and its two children on those *)
(* paths (the entries themselves when they are in the same directory): the *)
(* child of the entry processed first has no later modification time than  *)
(* the other.  And the entries processed between two entries beneath one   *)
(* directory are beneath that directory too.                               *)
(***************************************************************************)
Prefix(p, n) == SubSeq(p, 1, n)
Shorter(p, q) == IF Len(p) <= Len(q) THEN Len(p) ELSE Len(q)
\* The number of leading components that p and q share.
CommonLen(p, q) == Cardinality({n \in 1..Shorter(p, q) : Prefix(p, n) = Prefix(q, n)})
\* The child, on the path to p, of the directory where p and q part.
ChildToward(p, q) == Prefix(p, CommonLen(p, q) + 1)

C19_OrderedPerDirectory ==
    \A seen \in {PathsOf(Reported)} :
        \A i, j \in 1..Len(seen) :
            i < j =>
                /\ fs0[ChildToward(seen[i], seen[j])].mtime
                       <= fs0[ChildToward(seen[j], seen[i])].mtime
                /\ \A k \in (i + 1)..(j - 1) :
                      CommonLen(seen[i], seen[k]) >= CommonLen(seen[i], seen[j])

\* r is older than directory a and goes first; in a, w is older than x and
\* goes before it, against the order of the listing.
C19_Witness ==
    /\ pc = "done"
    /\ PathsOf(Reported) = <<LeafR, LeafW, LeafX>>
    /\ fs0[LeafR].mtime < fs0[DirA].mtime
    /\ fs0[LeafW].mtime < fs0[LeafX].mtime

====
